---- MODULE Spec2Model ----
(***************************************************************************)
(* Model of the chroma-key filter removeGreenScreen of                     *)
(* src/src/services/geminiService.ts (lines 602-734): the image load, the  *)
(* canvas read-back and the three passes over the RGBA pixel buffer.       *)
(*                                                                         *)
(* A pixel is a tuple <<r, g, b, a>> of 8-bit channels; the flat           *)
(* Uint8ClampedArray `data` of the code is modelled as a function from the *)
(* pixel number k = i / 4 (0-based) to its pixel, so data[i + c] of the    *)
(* code is data[k][c + 1] here.                                            *)
(*                                                                         *)
(* Arithmetic.  The code computes in IEEE doubles and stores into a        *)
(* Uint8ClampedArray, which rounds to the nearest integer (ties to even)   *)
(* and saturates to 0..255.  Every value the code stores is a rational     *)
(* with denominator 1, 2 or 20, so the model keeps numerator/denominator   *)
(* pairs in integers and rounds them as the array does.  The comparisons   *)
(* against 1.8, 1.4, 1.2 are cross-multiplied: g / (avgRB + 1) > t/10 is   *)
(* 20*g > t*(r + b + 2).  A correctly rounded double quotient compares to  *)
(* the literal exactly as the rational does, and the products excess*0.3   *)
(* that land on a tie (excess 15 and 25) are exact doubles (4.5, 7.5).     *)
(***************************************************************************)
EXTENDS Integers, FiniteSets, Sequences, TLC

VARIABLES
    pc,         \* position of the invocation: idle (not invoked), loading, pass1, pass2,
                \* pass3, resolved, rejected
    imgW,       \* img.width of the decoded source image
    imgH,       \* img.height
    img,        \* the decoded source pixels, pixel number -> <<r,g,b,a>>
    tolerance,  \* the tolerance argument of the call
    canvasW,    \* canvas.width
    canvasH,    \* canvas.height
    data,       \* imageData.data, the live buffer
    tempData,   \* the copy taken before pass 2
    i,          \* pixel number of the loop of pass 1 / pass 3
    x,          \* column of the loop of pass 2
    y,          \* row of the loop of pass 2
    visited,    \* pixel numbers pass 2 has processed (history)
    reordered,  \* history: pass 2 has visited a pixel after one with a larger number
    afterP1,    \* history: the live buffer when pass 1 ended
    afterP2,    \* history: the live buffer when pass 2 ended
    result,     \* the value the promise was settled with
    settled,    \* how many times resolve/reject were called
    event,      \* history: the image event that fired: none, error (decode failed),
                \* load-no-context (decoded, getContext gave null), load
    invocations,\* history: how many times removeGreenScreen was invoked on img
    rb,         \* position of removeBackground: none (filter called directly),
                \* compositing, filtering, returned, thrown
    rbg,        \* position of replaceBackgroundWithGreen: none, start, fetching,
                \* generating, returned, thrown
    rbgError,   \* message of the error replaceBackgroundWithGreen threw
    rbError,    \* message of the error removeBackground threw
    raised,     \* history: message of the error the generation call raised
    greenBg,    \* the image replaceBackgroundWithGreen returned
    orig,       \* the image removeBackground was called with
    other       \* a second invocation of removeGreenScreen in flight at the same
                \* time, on another image: its position, image, buffer, snapshot
                \* and result (pc = "none" when there is no second invocation)

vars == <<pc, imgW, imgH, img, tolerance, canvasW, canvasH, data, tempData,
          i, x, y, visited, reordered, afterP1, afterP2, result, settled,
          event, invocations, rb, rbg, rbgError, rbError, raised, greenBg, orig,
          other>>

\* The state of the two-stage pipeline around the filter.
pipeVars == <<rb, rbg, rbgError, rbError, raised, greenBg, orig>>

\* The state of the filter's passes.
passVars == <<canvasW, canvasH, data, tempData, i, x, y, visited, reordered,
              afterP1, afterP2>>

(***************************************************************************)
(* Bounds of the model.                                                    *)
(***************************************************************************)
MaxW == 4
MaxH == 3

Max(m, n) == IF m >= n THEN m ELSE n
Min(m, n) == IF m <= n THEN m ELSE n

R(p) == p[1]
G(p) == p[2]
B(p) == p[3]
A(p) == p[4]

\* Variant: the store rounds but does not saturate (a plain number array).
ToUint8Unsaturated(num, den) ==
    LET q == num \div den
        rem == num % den
    IN  IF 2 * rem < den THEN q
        ELSE IF 2 * rem > den THEN q + 1
        ELSE IF q % 2 = 0 THEN q ELSE q + 1

(***************************************************************************)
(* Store of the number num/den (den > 0) into a Uint8ClampedArray element: *)
(* round to nearest, ties to even, then saturate to 0..255.                *)
(***************************************************************************)
ToUint8Clamped(num, den) ==
    IF num <= 0 THEN 0
    ELSE LET q == num \div den
             rem == num % den
             rounded == IF 2 * rem < den THEN q
                        ELSE IF 2 * rem > den THEN q + 1
                        ELSE IF q % 2 = 0 THEN q ELSE q + 1
         IN  IF rounded > 255 THEN 255 ELSE rounded

(***************************************************************************)
(* Pass 1: classification of one pixel (lines 630-659).                    *)
(***************************************************************************)
GreenStrength(p) == G(p) - Max(R(p), B(p))

\* greenRatio = g / (avgRB + 1) > tenths / 10, with avgRB = (r + b) / 2
GreenRatioAbove(p, tenths) == 20 * G(p) > tenths * (R(p) + B(p) + 2)


\* Variant: the two arms of tier 1 joined by "and" instead of "or".
Tier1Conjoined(p) ==
    GreenStrength(p) > 80 /\ (G(p) > 180 /\ GreenRatioAbove(p, 18))

Tier1(p) == GreenStrength(p) > 80 \/ (G(p) > 180 /\ GreenRatioAbove(p, 18))


\* Variant: tier 2 without its ratio arm.
Tier2StrengthOnly(p) == GreenStrength(p) > 40

Tier2(p) == GreenStrength(p) > 40 \/ (G(p) > 120 /\ GreenRatioAbove(p, 14))


\* Variant: tier 3 with the strength threshold of pass 2 (5) instead of 15.
Tier3Eager(p) == GreenStrength(p) > 5 \/ GreenRatioAbove(p, 12)

Tier3(p) == GreenStrength(p) > 15 \/ GreenRatioAbove(p, 12)

\* Variant: green replaced by the larger of red and blue.
MaxRBStored(p) == ToUint8Clamped(Max(R(p), B(p)), 1)

\* data[i + 1] = avgRB
AvgRBStored(p) == ToUint8Clamped(R(p) + B(p), 2)


\* Variant: the alpha of tier 2 never above the alpha the pixel came with.
Tier2AlphaNotAbove(p) ==
    Min(A(p), ToUint8Clamped(Max(0, 255 - GreenStrength(p) * 3), 1))

\* Variant: the alpha falloff of tier 2 with slope 4 instead of 3.
Tier2AlphaSlope4(p) == ToUint8Clamped(Max(0, 255 - GreenStrength(p) * 4), 1)

\* Variant: the alpha falloff of tier 2 with slope 2 instead of 3.
Tier2AlphaSlope2(p) == ToUint8Clamped(Max(0, 255 - GreenStrength(p) * 2), 1)

\* data[i + 3] = Math.max(0, 255 - greenStrength * 3)
Tier2Alpha(p) == ToUint8Clamped(Max(0, 255 - GreenStrength(p) * 3), 1)



\* Variant: the tiers tested in the order 3, 2, 1.
Pass1PixelTier3First(p) ==
    IF A(p) = 0 THEN p
    ELSE IF Tier3(p) THEN <<R(p), AvgRBStored(p), B(p), A(p)>>
    ELSE IF Tier2(p) THEN <<R(p), AvgRBStored(p), B(p), Tier2Alpha(p)>>
    ELSE IF Tier1(p) THEN <<R(p), G(p), B(p), 0>>
    ELSE p

\* Variant: tier 1 zeroes element i + 1 (green) instead of i + 3 (alpha).
Pass1PixelWrongChannel(p) ==
    IF A(p) = 0 THEN p
    ELSE IF Tier1(p) THEN <<R(p), 0, B(p), A(p)>>
    ELSE IF Tier2(p) THEN <<R(p), AvgRBStored(p), B(p), Tier2Alpha(p)>>
    ELSE IF Tier3(p) THEN <<R(p), AvgRBStored(p), B(p), A(p)>>
    ELSE p

Pass1Pixel(p) ==
    IF A(p) = 0 THEN p
    ELSE IF Tier1(p) THEN <<R(p), G(p), B(p), 0>>
    ELSE IF Tier2(p) THEN <<R(p), AvgRBStored(p), B(p), Tier2Alpha(p)>>
    ELSE IF Tier3(p) THEN <<R(p), AvgRBStored(p), B(p), A(p)>>
    ELSE p

(***************************************************************************)
(* Pass 2: edge despill of the pixel at column xx, row yy (lines 666-699). *)
(* The pixel's own alpha is read from the live buffer, its colour and the  *)
(* neighbours' alpha from the snapshot.                                    *)
(***************************************************************************)

\* Variant: only the four orthogonal neighbours are examined.
HasTransparentNeighborOrthogonal(snap, w, xx, yy) ==
    \E dy \in -1..1 : \E dx \in -1..1 :
        /\ (dx = 0) # (dy = 0)
        /\ (yy + dy) * w + (xx + dx) \in DOMAIN snap
        /\ A(snap[(yy + dy) * w + (xx + dx)]) < 128

\* tempData[nIdx + 3] < 128 (line 681); an index outside the array reads
\* undefined, and undefined < 128 is false.
HasTransparentNeighbor(snap, w, xx, yy) ==
    \E dy \in -1..1 : \E dx \in -1..1 :
        /\ ~(dx = 0 /\ dy = 0)
        /\ (yy + dy) * w + (xx + dx) \in DOMAIN snap
        /\ A(snap[(yy + dy) * w + (xx + dx)]) < 128

\* Variant: the despill of pass 2 also makes the pixel transparent.
Pass2PixelFadesAlpha(live, snap, w, xx, yy) ==
    LET idx == yy * w + xx
        s   == snap[idx]
        l   == live[idx]
    IN  IF /\ A(l) > 0
           /\ HasTransparentNeighbor(snap, w, xx, yy)
           /\ GreenStrength(s) > 5
        THEN <<R(l), ToUint8Clamped(Min(R(s) + B(s), 2 * G(s)), 2), B(l), 0>>
        ELSE l

Pass2Pixel(live, snap, w, xx, yy) ==
    LET idx == yy * w + xx
        s   == snap[idx]
        l   == live[idx]
    IN  IF /\ A(l) > 0
           /\ HasTransparentNeighbor(snap, w, xx, yy)
           /\ GreenStrength(s) > 5
        THEN <<R(l), ToUint8Clamped(Min(R(s) + B(s), 2 * G(s)), 2), B(l), A(l)>>
        ELSE l


\* Variant: the write of pass 2 goes to the snapshot instead of the live buffer.
Pass2StoreIntoSnapshot(live, snap, idx, p) == <<live, [snap EXCEPT ![idx] = p]>>

\* The write of pass 2 goes to the live buffer; the snapshot is left alone.
Pass2Store(live, snap, idx, p) == <<[live EXCEPT ![idx] = p], snap>>

\* Pixel numbers pass 2 visits: 1 <= x < width - 1, 1 <= y < height - 1.
Interior(w, h) ==
    {yy * w + xx : xx \in 1..(w - 2), yy \in 1..(h - 2)}

\* The result of pass 2 when the pixels are visited in the code's row-major
\* order, starting from live buffer `live` and snapshot `snap`.
RECURSIVE Pass2RowMajor(_, _, _, _)
Pass2RowMajor(live, snap, w, todo) ==
    IF todo = {} THEN live
    ELSE LET idx == CHOOSE k \in todo : \A j \in todo : k <= j
             st  == Pass2Store(live, snap, idx,
                               Pass2Pixel(live, snap, w, idx % w, idx \div w))
         IN  Pass2RowMajor(st[1], snap, w, todo \ {idx})

(***************************************************************************)
(* Pass 3: fine despill of one pixel (lines 705-717).                      *)
(* g > avgRB + 10 is 2g > r + b + 20; the stored value                     *)
(* avgRB + min(excess * 0.3, 10) is (10(r+b) + min(3(2g-r-b), 200)) / 20.  *)
(***************************************************************************)


\* Variant: pass 3 without the test data[i + 3] > 0.
Pass3PixelNoAlphaTest(p) ==
    IF 2 * G(p) > R(p) + B(p) + 20
    THEN <<R(p),
           ToUint8Clamped(10 * (R(p) + B(p))
                            + Min(3 * (2 * G(p) - R(p) - B(p)), 200), 20),
           B(p), A(p)>>
    ELSE p

\* Variant: pass 3 stores avgRB + excess / 2, without the cap.
Pass3PixelHalfExcess(p) ==
    IF A(p) > 0 /\ 2 * G(p) > R(p) + B(p) + 20
    THEN <<R(p), ToUint8Clamped(R(p) + B(p) + 2 * G(p), 4), B(p), A(p)>>
    ELSE p

\* Variant: pass 3 with the cap 20 instead of 10.
Pass3PixelCap20(p) ==
    IF A(p) > 0 /\ 2 * G(p) > R(p) + B(p) + 20
    THEN <<R(p),
           ToUint8Clamped(10 * (R(p) + B(p))
                            + Min(3 * (2 * G(p) - R(p) - B(p)), 400), 20),
           B(p), A(p)>>
    ELSE p

\* Variant: pass 3 without the test g > avgRB + 10.
Pass3PixelUnguarded(p) ==
    IF A(p) > 0
    THEN <<R(p),
           ToUint8Clamped(10 * (R(p) + B(p))
                            + Min(3 * (2 * G(p) - R(p) - B(p)), 200), 20),
           B(p), A(p)>>
    ELSE p

\* Variant: pass 3 testing g > avgRB + 20.
Pass3PixelLateGuard(p) ==
    IF A(p) > 0 /\ 2 * G(p) > R(p) + B(p) + 40
    THEN <<R(p),
           ToUint8Clamped(10 * (R(p) + B(p))
                            + Min(3 * (2 * G(p) - R(p) - B(p)), 200), 20),
           B(p), A(p)>>
    ELSE p

Pass3Pixel(p) ==
    IF A(p) > 0 /\ 2 * G(p) > R(p) + B(p) + 20
    THEN <<R(p),
           ToUint8Clamped(10 * (R(p) + B(p))
                            + Min(3 * (2 * G(p) - R(p) - B(p)), 200), 20),
           B(p), A(p)>>
    ELSE p

(***************************************************************************)
(* The three passes run to the end on a buffer of w x h pixels: the loop   *)
(* of pass 1 (lines 630-659), the snapshot and the loops of pass 2 (lines  *)
(* 662-701), the loop of pass 3 (lines 704-718).                           *)
(***************************************************************************)
Pass1Image(d) == [k \in DOMAIN d |-> Pass1Pixel(d[k])]

Pass2Image(d, w, h) == Pass2RowMajor(d, d, w, Interior(w, h))

Pass3Image(d) == [k \in DOMAIN d |-> Pass3Pixel(d[k])]

FilterImage(d, w, h) == Pass3Image(Pass2Image(Pass1Image(d), w, h))

(***************************************************************************)
(* Canvas: sized to the image (lines 619-620), the image drawn at (0,0)    *)
(* and read back (lines 623-627).  Canvas pixels the image does not cover  *)
(* are transparent black.                                                  *)
(***************************************************************************)

\* Variant: canvas width and height exchanged.
CanvasSizeSwapped == <<imgH, imgW>>

CanvasSize == <<imgW, imgH>>

GetImageData(cw, ch) ==
    [k \in 0..(cw * ch - 1) |->
        LET cx == k % cw
            cy == k \div cw
        IN  IF cx < imgW /\ cy < imgH THEN img[cy * imgW + cx]
            ELSE <<0, 0, 0, 0>>]

(***************************************************************************)
(* Inputs.  The decoded images the model runs the filter on:               *)
(*   - every image of 1..MaxW by 1..MaxH pixels made of a backdrop colour  *)
(*     with a subject colour on one pixel, or on all interior pixels;      *)
(*   - every 3x3 image with a subject colour in the centre and a ring of   *)
(*     one backdrop colour in which up to two pixels have another;         *)
(*   - the 4x4 end-to-end scenario image;                                  *)
(*   - every 4x3 image with a green left column, a subject colour on both  *)
(*     interior pixels and an opaque non-green colour elsewhere;           *)
(*   - every 1x1 image whose channels are drawn from Levels.               *)
(* The one-pixel images are run with each tolerance argument, the larger   *)
(* ones with the argument left out (the default).                          *)
(***************************************************************************)
Green   == <<0, 255, 0, 255>>
Skin    == <<180, 120, 90, 255>>
Spill   == <<150, 170, 80, 255>>

Backdrops == {Green, <<0, 255, 0, 0>>, Skin}

Subjects ==
    { Green, <<0, 255, 0, 128>>, <<120, 185, 0, 255>>,
      <<100, 160, 100, 255>>, <<200, 150, 0, 100>>, <<101, 160, 100, 255>>,
      <<100, 120, 100, 255>>, <<10, 14, 10, 255>>,
      <<200, 50, 180, 255>>, <<200, 50, 180, 0>>, Skin, Spill,
      <<255, 241, 145, 255>>, <<100, 110, 100, 255>>, <<100, 115, 100, 255>>,
      <<105, 115, 100, 255>>, <<255, 241, 148, 255>> }

Levels == {0, 100, 105, 110, 115, 120, 140, 160, 180, 200, 255}

Alphas == {100, 255}

\* The default of the tolerance parameter (line 604).
DefaultTolerance == 40

Tolerances == {40, 50}

Masks(w, h) == {{k} : k \in 0..(w * h - 1)} \cup {Interior(w, h)}

PatternImage(w, h, mask, p, q) ==
    [k \in 0..(w * h - 1) |-> IF k \in mask THEN p ELSE q]

Ring == (0..8) \ {4}

RingMasks == {m \in SUBSET Ring : Cardinality(m) \in {1, 2}}

RingImage(p, q1, q2, odd) ==
    [k \in 0..8 |-> IF k = 4 THEN p ELSE IF k \in odd THEN q2 ELSE q1]

ScenarioImage ==
    [k \in 0..15 |-> IF k = 5 THEN Spill
                     ELSE IF k \in {6, 9, 10} THEN Skin
                     ELSE Green]

EdgePairImage(p) ==
    [k \in 0..11 |-> IF k \in {0, 4, 8} THEN Green
                     ELSE IF k \in {5, 6} THEN p
                     ELSE Skin]

Empty == [k \in {} |-> <<0, 0, 0, 0>>]

NoResult == [kind |-> "none", width |-> 0, height |-> 0, pixels |-> Empty]

PixelCount(d) == Cardinality(DOMAIN d)

NoImage == [width |-> 0, height |-> 0, pixels |-> Empty]

\* The photograph removeBackground is called with: no green backdrop yet.
OriginalImage ==
    [width |-> 2, height |-> 2, pixels |-> PatternImage(2, 2, {}, Skin, Skin)]

\* The images the generation service may answer with.
CompositedImages ==
    {[width |-> 4, height |-> 4, pixels |-> ScenarioImage]}
    \cup {[width |-> 3, height |-> 3, pixels |-> PatternImage(3, 3, {4}, p, Green)] :
             p \in Subjects}
    \cup {[width |-> 2, height |-> 2, pixels |-> PatternImage(2, 2, {0}, Green, Skin)]}

\* The errors the generation call may raise: an API or network error, a
\* cancelled or timed-out call.
CollaboratorErrors == {"api-error", "network-error", "cancelled"}

\* No second invocation.
NoCall ==
    [pc |-> "none", first |-> FALSE, width |-> 0, height |-> 0, pixels |-> Empty,
     data |-> Empty, tempData |-> Empty, result |-> NoResult]

\* The images of two invocations in flight at the same time.
ConcurrentImages ==
    {[width |-> 4, height |-> 4, pixels |-> ScenarioImage],
     [width |-> 3, height |-> 3,
      pixels |-> PatternImage(3, 3, {4}, <<100, 110, 100, 255>>, Green)],
     [width |-> 3, height |-> 3,
      pixels |-> PatternImage(3, 3, {4}, <<100, 160, 100, 255>>, Green)],
     [width |-> 2, height |-> 2, pixels |-> PatternImage(2, 2, {0}, Green, Skin)]}

\* A call of removeGreenScreen itself, on any of the input images.
InitDirect ==
    /\ pc = "loading"
    /\ other = NoCall
    /\ invocations = 1
    /\ rb = "none"
    /\ rbg = "none"
    /\ orig = NoImage
    /\ \/ \E w \in 1..MaxW, h \in 1..MaxH :
            \E mask \in Masks(w, h), p \in Subjects, q \in Backdrops :
               /\ imgW = w
               /\ imgH = h
               /\ img = PatternImage(w, h, mask, p, q)
       \/ \E p \in Subjects, q1 \in Backdrops, q2 \in Backdrops, odd \in RingMasks :
            /\ q1 # q2
            /\ imgW = 3
            /\ imgH = 3
            /\ img = RingImage(p, q1, q2, odd)
       \/ /\ imgW = 4
          /\ imgH = 4
          /\ img = ScenarioImage
       \/ \E p \in Subjects :
            /\ imgW = 4
            /\ imgH = 3
            /\ img = EdgePairImage(p)
       \/ \E r \in Levels, g \in Levels, b \in Levels, a \in Alphas :
            /\ imgW = 1
            /\ imgH = 1
            /\ img = [k \in {0} |-> <<r, g, b, a>>]
    /\ tolerance \in (IF imgW * imgH = 1 THEN Tolerances ELSE {DefaultTolerance})

\* A call of removeBackground (lines 739-748): the filter is not invoked yet,
\* replaceBackgroundWithGreen has been called with the original image.
InitPipeline ==
    /\ pc = "idle"
    /\ other = NoCall
    /\ tolerance = 0
    /\ invocations = 0
    /\ rb = "compositing"
    /\ rbg = "start"
    /\ orig = OriginalImage
    /\ imgW = 0
    /\ imgH = 0
    /\ img = Empty

\* Two calls of removeGreenScreen on different images, both waiting for their
\* image to load (lines 606-609, 732 executed twice).
InitConcurrent ==
    /\ pc = "loading"
    /\ tolerance \in Tolerances
    /\ invocations = 1
    /\ rb = "none"
    /\ rbg = "none"
    /\ orig = NoImage
    /\ \E m \in ConcurrentImages, o \in ConcurrentImages :
          /\ m # o
          /\ imgW = m.width
          /\ imgH = m.height
          /\ img = m.pixels
          /\ other = [NoCall EXCEPT !.pc = "loading", !.width = o.width,
                                    !.height = o.height, !.pixels = o.pixels]

Init ==
    /\ (InitDirect \/ InitPipeline \/ InitConcurrent)
    /\ event = "none"
    /\ rbgError = <<>>
    /\ rbError = <<>>
    /\ raised = <<>>
    /\ greenBg = NoImage
    /\ canvasW = 0
    /\ canvasH = 0
    /\ data = Empty
    /\ tempData = Empty
    /\ i = 0
    /\ x = 0
    /\ y = 0
    /\ visited = {}
    /\ reordered = FALSE
    /\ afterP1 = Empty
    /\ afterP2 = Empty
    /\ result = NoResult
    /\ settled = 0


\* Variant: the error handler sets img.src again once before giving up.
OnErrorRetry ==
    /\ pc = "loading"
    /\ event' = "error"
    /\ IF invocations < 2
       THEN /\ pc' = "loading"
            /\ invocations' = invocations + 1
            /\ UNCHANGED <<result, settled>>
       ELSE /\ pc' = "rejected"
            /\ result' = [NoResult EXCEPT !.kind = "load-error"]
            /\ settled' = settled + 1
            /\ UNCHANGED invocations
    /\ UNCHANGED <<imgW, imgH, img, tolerance, passVars, pipeVars, other>>

(***************************************************************************)
(* img.onerror (lines 728-730): the source could not be loaded.            *)
(***************************************************************************)
OnError ==
    /\ pc = "loading"
    /\ pc' = "rejected"
    /\ result' = [NoResult EXCEPT !.kind = "load-error"]
    /\ settled' = settled + 1
    /\ UNCHANGED <<imgW, imgH, img, tolerance, canvasW, canvasH, data, tempData,
                   i, x, y, visited, reordered, afterP1, afterP2>>
    /\ event' = "error"
    /\ UNCHANGED <<invocations, pipeVars, other>>


\* Variant: the context is tested only after the canvas was sized and read.
OnLoadNoContextAfterRead ==
    /\ pc = "loading"
    /\ pc' = "rejected"
    /\ canvasW' = imgW
    /\ canvasH' = imgH
    /\ data' = img
    /\ result' = [NoResult EXCEPT !.kind = "context-error"]
    /\ settled' = settled + 1
    /\ event' = "load-no-context"
    /\ UNCHANGED <<imgW, imgH, img, tolerance, tempData, i, x, y, visited,
                   reordered, afterP1, afterP2, invocations, pipeVars, other>>

(***************************************************************************)
(* img.onload when getContext returns null (lines 611-617).                *)
(***************************************************************************)
OnLoadNoContext ==
    /\ pc = "loading"
    /\ pc' = "rejected"
    /\ result' = [NoResult EXCEPT !.kind = "context-error"]
    /\ settled' = settled + 1
    /\ UNCHANGED <<imgW, imgH, img, tolerance, canvasW, canvasH, data, tempData,
                   i, x, y, visited, reordered, afterP1, afterP2>>
    /\ event' = "load-no-context"
    /\ UNCHANGED <<invocations, pipeVars, other>>

(***************************************************************************)
(* img.onload with a context (lines 611-630): size the canvas, draw, read  *)
(* the pixels back and enter the loop of pass 1.                           *)
(***************************************************************************)
OnLoad ==
    /\ pc = "loading"
    /\ canvasW' = CanvasSize[1]
    /\ canvasH' = CanvasSize[2]
    /\ data' = GetImageData(CanvasSize[1], CanvasSize[2])
    /\ i' = 0
    /\ pc' = "pass1"
    /\ UNCHANGED <<imgW, imgH, img, tolerance, tempData, x, y, visited,
                   reordered, afterP1, afterP2, result, settled>>
    /\ event' = "load"
    /\ UNCHANGED <<invocations, pipeVars, other>>

\* One iteration of the loop of pass 1 (lines 630-659).
Pass1Step ==
    /\ pc = "pass1"
    /\ i < PixelCount(data)
    /\ data' = [data EXCEPT ![i] = Pass1Pixel(data[i])]
    /\ i' = i + 1
    /\ UNCHANGED <<pc, imgW, imgH, img, tolerance, canvasW, canvasH, tempData,
                   x, y, visited, reordered, afterP1, afterP2, result, settled>>
    /\ UNCHANGED <<event, invocations, pipeVars, other>>


\* Variant: the snapshot is taken and pass 2 entered before pass 1 has ended.
Pass1DoneEarly ==
    /\ pc = "pass1"
    /\ tempData' = data
    /\ afterP1' = data
    /\ y' = 1
    /\ x' = 1
    /\ visited' = {}
    /\ pc' = "pass2"
    /\ UNCHANGED <<imgW, imgH, img, tolerance, canvasW, canvasH, data, i,
                   reordered, afterP2, result, settled>>
    /\ UNCHANGED <<event, invocations, pipeVars, other>>

\* Exit of the loop of pass 1, the snapshot (line 662) and entry of pass 2.
Pass1Done ==
    /\ pc = "pass1"
    /\ ~(i < PixelCount(data))
    /\ tempData' = data
    /\ afterP1' = data
    /\ y' = 1
    /\ x' = 1
    /\ visited' = {}
    /\ pc' = "pass2"
    /\ UNCHANGED <<imgW, imgH, img, tolerance, canvasW, canvasH, data, i,
                   reordered, afterP2, result, settled>>
    /\ UNCHANGED <<event, invocations, pipeVars, other>>

\* The body of pass 2 for the pixel at (xx, yy) (lines 666-699).
Pass2Body(xx, yy) ==
    LET idx == yy * canvasW + xx
        st  == Pass2Store(data, tempData, idx,
                          Pass2Pixel(data, tempData, canvasW, xx, yy))
    IN  /\ data' = st[1]
        /\ tempData' = st[2]
        /\ visited' = visited \cup {idx}
        /\ reordered' = (reordered \/ \E v \in visited : v > idx)

\* Variant: the outer loop of pass 2 runs to the last row (y < canvas.height).
Pass2StepToLastRow ==
    /\ pc = "pass2"
    /\ y < canvasH
    /\ x < canvasW - 1
    /\ Pass2Body(x, y)
    /\ IF x + 1 < canvasW - 1
       THEN x' = x + 1 /\ y' = y
       ELSE x' = 1 /\ y' = y + 1
    /\ UNCHANGED <<pc, imgW, imgH, img, tolerance, canvasW, canvasH, i,
                   afterP1, afterP2, result, settled>>
    /\ UNCHANGED <<event, invocations, pipeVars, other>>

\* One iteration of the nested loops of pass 2, in the code's row-major order.
Pass2Step ==
    /\ pc = "pass2"
    /\ y < canvasH - 1
    /\ x < canvasW - 1
    /\ Pass2Body(x, y)
    /\ IF x + 1 < canvasW - 1
       THEN x' = x + 1 /\ y' = y
       ELSE x' = 1 /\ y' = y + 1
    /\ UNCHANGED <<pc, imgW, imgH, img, tolerance, canvasW, canvasH, i,
                   afterP1, afterP2, result, settled>>
    /\ UNCHANGED <<event, invocations, pipeVars, other>>

\* Exit of the loops of pass 2 and entry of pass 3 (line 704).
Pass2Done ==
    /\ pc = "pass2"
    /\ ~(y < canvasH - 1 /\ x < canvasW - 1)
    /\ afterP2' = data
    /\ i' = 0
    /\ pc' = "pass3"
    /\ UNCHANGED <<imgW, imgH, img, tolerance, canvasW, canvasH, data, tempData,
                   x, y, visited, reordered, afterP1, result, settled>>
    /\ UNCHANGED <<event, invocations, pipeVars, other>>

\* One iteration of the loop of pass 3 (lines 704-718).
Pass3Step ==
    /\ pc = "pass3"
    /\ i < PixelCount(data)
    /\ data' = [data EXCEPT ![i] = Pass3Pixel(data[i])]
    /\ i' = i + 1
    /\ UNCHANGED <<pc, imgW, imgH, img, tolerance, canvasW, canvasH, tempData,
                   x, y, visited, reordered, afterP1, afterP2, result, settled>>
    /\ UNCHANGED <<event, invocations, pipeVars, other>>

\* Variant: the handler ends without calling resolve.
Pass3DoneNoResolve ==
    /\ pc = "pass3"
    /\ ~(i < PixelCount(data))
    /\ pc' = "returned"
    /\ UNCHANGED <<imgW, imgH, img, tolerance, canvasW, canvasH, data, tempData,
                   i, x, y, visited, reordered, afterP1, afterP2, result, settled>>
    /\ UNCHANGED <<event, invocations, pipeVars, other>>

\* putImageData, toDataURL('image/png') and resolve (lines 720-725).
Pass3Done ==
    /\ pc = "pass3"
    /\ ~(i < PixelCount(data))
    /\ result' = [kind |-> "png", width |-> canvasW, height |-> canvasH,
                  pixels |-> data]
    /\ settled' = settled + 1
    /\ pc' = "resolved"
    /\ UNCHANGED <<imgW, imgH, img, tolerance, canvasW, canvasH, data, tempData,
                   i, x, y, visited, reordered, afterP1, afterP2>>
    /\ UNCHANGED <<event, invocations, pipeVars, other>>

(***************************************************************************)
(* The two-stage pipeline: replaceBackgroundWithGreen (lines 489-597) and  *)
(* removeBackground (lines 739-761).  An error message is the sequence of  *)
(* its parts, outermost prefix first.                                      *)
(***************************************************************************)
filterVars == <<pc, imgW, imgH, img, tolerance, passVars, result, settled,
                event, invocations>>

\* Variant: the catch of replaceBackgroundWithGreen rethrows what it caught.
GreenCatchRethrow(msg) == msg

\* catch of replaceBackgroundWithGreen (lines 593-596): prefix + error.message
GreenCatch(msg) == <<"green-replace-failed: ">> \o msg

\* Variant: the catch of removeBackground drops error.message.
RemoveCatchSwallow(msg) == <<"background-removal-failed: ">>

\* catch of removeBackground (lines 757-760): prefix + error.message
RemoveCatch(msg) == <<"background-removal-failed: ">> \o msg

\* No API key (lines 495-499): thrown before the try block, so not wrapped.
RbgNoApiKey ==
    /\ rbg = "start"
    /\ rbg' = "thrown"
    /\ rbgError' = <<"api-key-missing">>
    /\ UNCHANGED <<other, filterVars, rb, rbError, raised, greenBg, orig>>

\* API key present: enter the try block and await urlToBase64 (lines 501-504).
RbgStart ==
    /\ rbg = "start"
    /\ rbg' = "fetching"
    /\ UNCHANGED <<other, filterVars, rb, rbgError, rbError, raised, greenBg, orig>>

\* urlToBase64 throws (lines 166-169); caught at line 593.
RbgFetchFailed ==
    /\ rbg = "fetching"
    /\ rbg' = "thrown"
    /\ rbgError' = GreenCatch(<<"image-fetch-failed">>)
    /\ UNCHANGED <<other, filterVars, rb, rbError, raised, greenBg, orig>>

\* urlToBase64 returns; generateContent is called and awaited (line 544).
RbgFetched ==
    /\ rbg = "fetching"
    /\ rbg' = "generating"
    /\ UNCHANGED <<other, filterVars, rb, rbgError, rbError, raised, greenBg, orig>>

\* generateContent raises an error; caught at line 593.
RbgGenerateFailed ==
    /\ rbg = "generating"
    /\ \E m \in CollaboratorErrors :
          /\ raised' = <<m>>
          /\ rbgError' = GreenCatch(<<m>>)
    /\ rbg' = "thrown"
    /\ UNCHANGED <<other, filterVars, rb, rbError, greenBg, orig>>

\* The response holds no image part (lines 578-591); caught at line 593.
RbgNoImagePart ==
    /\ rbg = "generating"
    /\ rbg' = "thrown"
    /\ rbgError' = GreenCatch(<<"no-image-generated">>)
    /\ UNCHANGED <<other, filterVars, rb, rbError, raised, greenBg, orig>>

\* The response holds an image part, returned as a data URL (lines 578-586).
RbgImagePart ==
    /\ rbg = "generating"
    /\ rbg' = "returned"
    /\ greenBg' \in CompositedImages
    /\ UNCHANGED <<other, filterVars, rb, rbgError, rbError, raised, orig>>


\* Variant: removeBackground hands the original image to the filter.
FilterInputOriginal == orig

\* The image removeBackground hands to removeGreenScreen (line 753).
FilterInput == greenBg

\* removeBackground resumes after the await of line 748 with the image and
\* calls removeGreenScreen(greenBgImage, 50) (line 753; lines 606-609, 732).
RbInvokeFilter ==
    /\ rb = "compositing"
    /\ rbg = "returned"
    /\ rb' = "filtering"
    /\ pc' = "loading"
    /\ imgW' = FilterInput.width
    /\ imgH' = FilterInput.height
    /\ img' = FilterInput.pixels
    /\ tolerance' = 50
    /\ invocations' = invocations + 1
    /\ UNCHANGED <<passVars, result, settled, event, rbg, rbgError, rbError,
                   raised, greenBg, orig, other>>

\* The await of line 748 throws: the catch of removeBackground (lines 757-760).
RbCompositeFailed ==
    /\ rb = "compositing"
    /\ rbg = "thrown"
    /\ rb' = "thrown"
    /\ rbError' = RemoveCatch(rbgError)
    /\ UNCHANGED <<other, filterVars, rbg, rbgError, raised, greenBg, orig>>

\* The await of line 753 returns the PNG: removeBackground returns it.
RbFilterResolved ==
    /\ rb = "filtering"
    /\ pc = "resolved"
    /\ rb' = "returned"
    /\ UNCHANGED <<other, filterVars, rbg, rbgError, rbError, raised, greenBg, orig>>

\* The await of line 753 throws: the catch of removeBackground.
RbFilterRejected ==
    /\ rb = "filtering"
    /\ pc = "rejected"
    /\ rb' = "thrown"
    /\ rbError' = RemoveCatch(<<result.kind>>)
    /\ UNCHANGED <<other, filterVars, rbg, rbgError, raised, greenBg, orig>>

Pipeline ==
    \/ RbgNoApiKey
    \/ RbgStart
    \/ RbgFetchFailed
    \/ RbgFetched
    \/ RbgGenerateFailed
    \/ RbgNoImagePart
    \/ RbgImagePart
    \/ RbInvokeFilter
    \/ RbCompositeFailed
    \/ RbFilterResolved
    \/ RbFilterRejected

(***************************************************************************)
(* The second invocation.  Its handlers are the same code (lines 610-730)  *)
(* run on its own Image, canvas, imageData and tempData, all of them       *)
(* locals of the call.  A handler runs to completion before another event  *)
(* is dispatched, so a handler of the second invocation runs as one step,  *)
(* and only while no handler of the first is running.                      *)
(***************************************************************************)
HandlerIdle == pc \notin {"pass1", "pass2", "pass3"}

\* img.onerror of the second invocation (lines 728-730).
OtherOnError ==
    /\ other.pc = "loading"
    /\ HandlerIdle
    /\ other' = [other EXCEPT !.pc = "rejected", !.first = (event = "none"),
                              !.result = [NoResult EXCEPT !.kind = "load-error"]]
    /\ UNCHANGED <<filterVars, pipeVars>>

\* img.onload of the second invocation without a context (lines 611-617).
OtherOnLoadNoContext ==
    /\ other.pc = "loading"
    /\ HandlerIdle
    /\ other' = [other EXCEPT !.pc = "rejected", !.first = (event = "none"),
                              !.result = [NoResult EXCEPT !.kind = "context-error"]]
    /\ UNCHANGED <<filterVars, pipeVars>>

\* Variant: imageData.data and tempData are one module-level pair of buffers
\* that every invocation uses.
OtherOnLoadSharedBuffer ==
    /\ other.pc = "loading"
    /\ HandlerIdle
    /\ LET d1  == Pass1Image(other.pixels)
           out == Pass3Image(Pass2Image(d1, other.width, other.height))
       IN  /\ tempData' = d1
           /\ data' = out
           /\ other' = [other EXCEPT
                           !.pc = "resolved", !.first = (event = "none"),
                           !.result = [kind |-> "png", width |-> other.width,
                                       height |-> other.height, pixels |-> out]]
    /\ UNCHANGED <<pc, imgW, imgH, img, tolerance, canvasW, canvasH, i, x, y,
                   visited, reordered, afterP1, afterP2, result, settled, event,
                   invocations, pipeVars>>

\* img.onload of the second invocation (lines 610-726): the three passes on
\* its own buffer and snapshot, then resolve.
OtherOnLoad ==
    /\ other.pc = "loading"
    /\ HandlerIdle
    /\ LET d1  == Pass1Image(other.pixels)
           out == Pass3Image(Pass2Image(d1, other.width, other.height))
       IN  other' = [other EXCEPT
                        !.pc = "resolved", !.first = (event = "none"),
                        !.tempData = d1, !.data = out,
                        !.result = [kind |-> "png", width |-> other.width,
                                    height |-> other.height, pixels |-> out]]
    /\ UNCHANGED <<filterVars, pipeVars>>

Concurrent ==
    \/ OtherOnError
    \/ OtherOnLoadNoContext
    \/ OtherOnLoad

Next ==
    \/ OnError
    \/ OnLoadNoContext
    \/ OnLoad
    \/ Pass1Step
    \/ Pass1Done
    \/ Pass2Step
    \/ Pass2Done
    \/ Pass3Step
    \/ Pass3Done
    \/ Pipeline
    \/ Concurrent

Spec == Init /\ [][Next]_vars

(***************************************************************************)
(* The same filter with pass 2 visiting its pixels in an arbitrary order:  *)
(* the specification under which order-independence is checked.            *)
(***************************************************************************)
Pass2StepAny ==
    /\ pc = "pass2"
    /\ \E idx \in Interior(canvasW, canvasH) \ visited :
          Pass2Body(idx % canvasW, idx \div canvasW)
    /\ UNCHANGED <<pc, imgW, imgH, img, tolerance, canvasW, canvasH, i, x, y,
                   afterP1, afterP2, result, settled>>
    /\ UNCHANGED <<event, invocations, pipeVars, other>>

Pass2DoneAny ==
    /\ pc = "pass2"
    /\ visited = Interior(canvasW, canvasH)
    /\ afterP2' = data
    /\ i' = 0
    /\ pc' = "pass3"
    /\ UNCHANGED <<imgW, imgH, img, tolerance, canvasW, canvasH, data, tempData,
                   x, y, visited, reordered, afterP1, result, settled>>
    /\ UNCHANGED <<event, invocations, pipeVars, other>>

NextAnyOrder ==
    \/ OnError
    \/ OnLoadNoContext
    \/ OnLoad
    \/ Pass1Step
    \/ Pass1Done
    \/ Pass2StepAny
    \/ Pass2DoneAny
    \/ Pass3Step
    \/ Pass3Done
    \/ Pipeline
    \/ Concurrent

SpecAnyOrder == Init /\ [][NextAnyOrder]_vars

(***************************************************************************)
(* The filter with its scheduling: the load handler is synchronous code    *)
(* (lines 610-726), so once it has started every loop iteration and every  *)
(* loop exit that is enabled is eventually taken.  Whether and when the    *)
(* load or error event fires is up to the environment: no fairness there.  *)
(***************************************************************************)
Handler ==
    \/ Pass1Step
    \/ Pass1Done
    \/ Pass2Step
    \/ Pass2Done
    \/ Pass3Step
    \/ Pass3Done

SpecLive == Init /\ [][Next]_vars /\ WF_vars(Handler)

(***************************************************************************)
(* Properties.                                                             *)
(***************************************************************************)
Resolved == pc = "resolved"

Out == result.pixels

PastPass1 == pc \in {"pass2", "pass3", "resolved"}

PastPass2 == pc \in {"pass3", "resolved"}

\* The conditions of the tiers as the specification words them.
StrongGreen(p) ==
    \/ G(p) - Max(R(p), B(p)) > 80
    \/ (G(p) > 180 /\ 10 * 2 * G(p) > 18 * (R(p) + B(p) + 2))

MediumGreen(p) ==
    \/ G(p) - Max(R(p), B(p)) > 40
    \/ (G(p) > 120 /\ 10 * 2 * G(p) > 14 * (R(p) + B(p) + 2))

WeakTint(p) ==
    \/ G(p) - Max(R(p), B(p)) > 15
    \/ 10 * 2 * G(p) > 12 * (R(p) + B(p) + 2)

PureGreen(p) == R(p) = 0 /\ G(p) = 255 /\ B(p) = 0

SolidGreenInput == \A k \in DOMAIN img : PureGreen(img[k])

\* C1: a solid #00FF00 image of any size and any alpha comes out of the
\* filter with alpha = 0 on every pixel.
C1_SolidGreenAllTransparent ==
    (Resolved /\ SolidGreenInput) =>
        /\ DOMAIN Out = DOMAIN img
        /\ \A k \in DOMAIN Out : A(Out[k]) = 0

\* C1 witness: a resolved run on a solid green image of several pixels, some
\* opaque and some partially transparent on input.
C1_Witness ==
    /\ Resolved
    /\ SolidGreenInput
    /\ imgW > 1
    /\ imgH > 1
    /\ \E k \in DOMAIN img : A(img[k]) = 255
    /\ \E k \in DOMAIN img : A(img[k]) = 128

\* C2: every input pixel with alpha > 0 that is strong green (tier 1) has
\* alpha 0 in the output, wherever it sits and whatever surrounds it.
C2_StrongGreenRemoved ==
    Resolved =>
        \A k \in DOMAIN img :
            (A(img[k]) > 0 /\ StrongGreen(img[k])) => A(Out[k]) = 0

\* C2 witness: a strong-green pixel that matches by the ratio arm only
\* (greenStrength <= 80), in the interior of an image of opaque non-green
\* pixels, has been keyed out.
C2_Witness ==
    /\ Resolved
    /\ \E k \in Interior(imgW, imgH) :
          /\ A(img[k]) > 0
          /\ StrongGreen(img[k])
          /\ GreenStrength(img[k]) <= 80
          /\ A(Out[k]) = 0
          /\ \A j \in DOMAIN img \ {k} : img[j] = Skin /\ Out[j] = Skin

\* Tier 2 applies: alpha > 0, not strong green, medium green.
InTier2(p) == A(p) > 0 /\ ~StrongGreen(p) /\ MediumGreen(p)

\* C3 as stated: a tier-2 pixel leaves pass 1 with alpha exactly
\* max(0, 255 - 3*greenStrength) and green exactly (R+B)/2.
C3_Tier2ExactValues ==
    PastPass1 =>
        \A k \in DOMAIN img :
            InTier2(img[k]) =>
                /\ A(afterP1[k]) = Max(0, 255 - 3 * (G(img[k]) - Max(R(img[k]), B(img[k]))))
                /\ 2 * G(afterP1[k]) = R(img[k]) + B(img[k])

\* C3 amended: a tier-2 pixel leaves pass 1 with alpha
\* min(255, max(0, 255 - 3*greenStrength)) and with green (R+B)/2 rounded to
\* an integer, a half going to the even neighbour; red and blue are kept;
\* (100,160,100) gets alpha 75 and green 100.
C3_Tier2StoredValues ==
    PastPass1 =>
        \A k \in DOMAIN img :
            InTier2(img[k]) =>
                LET p  == img[k]
                    q  == afterP1[k]
                    gs == G(p) - Max(R(p), B(p))
                    sum == R(p) + B(p)
                IN  /\ A(q) = Min(255, Max(0, 255 - 3 * gs))
                    /\ (sum % 2 = 0 => 2 * G(q) = sum)
                    /\ (sum % 2 = 1 => (G(q) % 2 = 0 /\ 2 * G(q) \in {sum - 1, sum + 1}))
                    /\ R(q) = R(p)
                    /\ B(q) = B(p)
                    /\ (<<R(p), G(p), B(p)>> = <<100, 160, 100>> =>
                            (A(q) = 75 /\ G(q) = 100))

\* C3 witness: pass 1 has handled the pixel (100,160,100,255), in the interior
\* of a green image, and left it as (100,100,100,75).
C3_Witness ==
    /\ PastPass1
    /\ \E k \in Interior(imgW, imgH) :
          /\ img[k] = <<100, 160, 100, 255>>
          /\ afterP1[k] = <<100, 100, 100, 75>>
          /\ \A j \in DOMAIN img \ {k} : img[j] = Green

\* C4: a pixel whose green does not exceed the average of red and blue
\* (2G <= R+B) matches no tier and comes out with R, G, B, A as on input.
C4_ForegroundPreserved ==
    Resolved =>
        \A k \in DOMAIN img :
            2 * G(img[k]) <= R(img[k]) + B(img[k]) =>
                /\ ~StrongGreen(img[k])
                /\ ~MediumGreen(img[k])
                /\ ~WeakTint(img[k])
                /\ afterP1[k] = img[k]
                /\ Out[k] = img[k]

\* C4 witness: the pixel (200,50,180), opaque, in the interior of an image
\* whose other pixels were keyed out, comes out unchanged.
C4_Witness ==
    /\ Resolved
    /\ \E k \in Interior(imgW, imgH) :
          /\ img[k] = <<200, 50, 180, 255>>
          /\ Out[k] = img[k]
          /\ \A j \in DOMAIN img \ {k} : A(img[j]) = 255 /\ A(Out[j]) = 0

\* Pass 3 modifies the pixel: alpha > 0 and G > avgRB + 10 on entry to pass 3.
Pass3Applies(p) == A(p) > 0 /\ 2 * G(p) > R(p) + B(p) + 20

\* C5 as stated: for every pixel pass 3 modifies, green before pass 3 minus
\* green after pass 3 is at most 10.
C5_ReductionAtMostTen ==
    Resolved =>
        \A k \in DOMAIN afterP2 :
            Pass3Applies(afterP2[k]) => G(afterP2[k]) - G(Out[k]) <= 10

\* C6 as stated: no output pixel with alpha > 0 has G > max(R, B).
C6_NoGreenDominantPixel ==
    Resolved =>
        \A k \in DOMAIN Out :
            A(Out[k]) > 0 => G(Out[k]) <= Max(R(Out[k]), B(Out[k]))

\* C6 amended: no output pixel with alpha > 0 has G > max(R, B) + 10.
C6_GreenDominanceAtMostTen ==
    Resolved =>
        \A k \in DOMAIN Out :
            A(Out[k]) > 0 => G(Out[k]) <= Max(R(Out[k]), B(Out[k])) + 10

\* C6 witness: an output pixel with alpha > 0 whose green is exactly 10 above
\* max(R, B), in an image of more than one pixel.
C6_Witness ==
    /\ Resolved
    /\ \E k \in DOMAIN Out :
          /\ A(Out[k]) > 0
          /\ G(Out[k]) = Max(R(Out[k]), B(Out[k])) + 10
          /\ imgW > 1

\* C7: the output has the width and height of the input, and the buffer holds
\* the same pixels in the same places throughout: same pixel numbers, and
\* for each the red and blue of the input pixel at that place.
C7_DimensionsPreserved ==
    /\ pc \in {"pass1", "pass2", "pass3", "resolved"} =>
          /\ canvasW = imgW
          /\ canvasH = imgH
          /\ DOMAIN data = 0..(imgW * imgH - 1)
          /\ \A k \in DOMAIN data : R(data[k]) = R(img[k]) /\ B(data[k]) = B(img[k])
    /\ Resolved =>
          /\ result.width = imgW
          /\ result.height = imgH
          /\ DOMAIN Out = DOMAIN img

\* C7 witness: a resolved run on a non-square image in which the passes have
\* changed pixels.
C7_Witness ==
    /\ Resolved
    /\ imgW = 4
    /\ imgH = 3
    /\ result.width = 4
    /\ result.height = 3
    /\ \E k \in DOMAIN img : Out[k] # img[k]
    /\ \E k \in DOMAIN img : Out[k] = img[k]

\* C8: pass 2 leaves the snapshot equal to pass 1's complete output, changes
\* nothing but the green channel of the live buffer, and whatever the order
\* of the visits ends with the result of the row-major order.
C8_Pass2OrderIndependent ==
    /\ PastPass1 =>
          /\ tempData = afterP1
          /\ \A k \in DOMAIN data :
                /\ R(data[k]) = R(afterP1[k])
                /\ B(data[k]) = B(afterP1[k])
                /\ A(data[k]) = A(afterP1[k])
          /\ \A k \in DOMAIN data \ visited : pc = "pass2" => data[k] = afterP1[k]
    /\ PastPass2 =>
          afterP2 = Pass2RowMajor(afterP1, afterP1, canvasW,
                                  Interior(canvasW, canvasH))

\* C8 witness: pass 2 has ended after visiting its pixels out of row-major
\* order and has changed at least two of them.
C8_Witness ==
    /\ PastPass2
    /\ reordered
    /\ Cardinality({k \in DOMAIN afterP2 : afterP2[k] # afterP1[k]}) >= 2

ScenarioRing == (0..15) \ {5, 6, 9, 10}

\* C9 as stated: in the 4x4 scenario the ring has alpha 0 after pass 1, pass 2
\* lowers the green of the (150,170,80) pixel, and the (180,120,90) pixels
\* are unchanged by all three passes.
C9_SpillDespilledInPass2 ==
    (Resolved /\ img = ScenarioImage) =>
        /\ \A k \in ScenarioRing : A(afterP1[k]) = 0
        /\ G(afterP2[5]) < G(afterP1[5])
        /\ \A k \in {6, 9, 10} :
              afterP1[k] = Skin /\ afterP2[k] = Skin /\ Out[k] = Skin

\* C9 amended: in the 4x4 scenario the ring has alpha 0 after pass 1; the
\* (150,170,80) pixel matches tier 2 in pass 1, which sets its green to 115
\* and its alpha to 195, and passes 2 and 3 leave it as it is; the
\* (180,120,90) pixels are unchanged by all three passes.
C9_SpillDespilledInPass1 ==
    (Resolved /\ img = ScenarioImage) =>
        /\ \A k \in ScenarioRing : A(afterP1[k]) = 0
        /\ afterP1[5] = <<150, 115, 80, 195>>
        /\ afterP2[5] = afterP1[5]
        /\ Out[5] = afterP1[5]
        /\ \A k \in {6, 9, 10} :
              afterP1[k] = Skin /\ afterP2[k] = Skin /\ Out[k] = Skin

\* C9 witness: the scenario image has gone through all three passes, pass 2
\* having visited the four centre pixels.
C9_Witness ==
    /\ Resolved
    /\ img = ScenarioImage
    /\ visited = {5, 6, 9, 10}
    /\ result.kind = "png"

\* Tier 1 with its thresholds scaled by tolerance / DefaultTolerance.
StrongGreenAt(p, t) ==
    \/ DefaultTolerance * (G(p) - Max(R(p), B(p))) > 80 * t
    \/ /\ DefaultTolerance * G(p) > 180 * t
       /\ DefaultTolerance * 10 * 2 * G(p) > 18 * t * (R(p) + B(p) + 2)

\* C10 as stated: the classification uses thresholds scaled in proportion to
\* the tolerance argument, so pass 1 makes a visible pixel fully transparent
\* exactly when it is strong green at the scaled thresholds.
C10_ToleranceScalesThresholds ==
    PastPass1 =>
        \A k \in DOMAIN img :
            A(img[k]) > 0 =>
                (A(afterP1[k]) = 0 <=> StrongGreenAt(img[k], tolerance))

\* The passes have not touched anything: no canvas size, no buffer, no
\* snapshot, no loop progress.
NoPassRan ==
    /\ canvasW = 0
    /\ canvasH = 0
    /\ data = Empty
    /\ tempData = Empty
    /\ afterP1 = Empty
    /\ afterP2 = Empty
    /\ i = 0
    /\ visited = {}

\* C11: in removeBackground, while replaceBackgroundWithGreen has not returned
\* an image, and for good once it has failed, removeGreenScreen is not invoked
\* and removeBackground does not return; when the filter does run it runs on
\* the complete image the compositing call returned (not the original input),
\* with tolerance 50, and it is invoked exactly once.
C11_FilterOnlyAfterCompositing ==
    /\ (rb # "none" /\ rbg \in {"start", "fetching", "generating", "thrown"}) =>
          /\ invocations = 0
          /\ pc = "idle"
          /\ NoPassRan
          /\ settled = 0
          /\ rb \in {"compositing", "thrown"}
          /\ greenBg = NoImage
    /\ rb \in {"filtering", "returned"} =>
          /\ rbg = "returned"
          /\ greenBg \in CompositedImages
          /\ invocations = 1
          /\ imgW = greenBg.width
          /\ imgH = greenBg.height
          /\ img = greenBg.pixels
          /\ img # orig.pixels
          /\ tolerance = 50
    /\ rb = "returned" => pc = "resolved"
    /\ (rb = "thrown" /\ rbg = "thrown") => rbError # <<>>

\* C11 witness: the generation call was cancelled, removeBackground has thrown
\* and the filter was never invoked.
C11_Witness ==
    /\ rb = "thrown"
    /\ raised = <<"cancelled">>
    /\ invocations = 0
    /\ pc = "idle"

\* C12 as stated: the error the caller of removeBackground receives has the
\* message the generation call raised.
C12_ErrorPropagatedAsIs ==
    (rb = "thrown" /\ raised # <<>>) => rbError = raised

\* C12 amended: the caller of removeBackground receives a new error whose
\* message is the message of the compositing failure with the prefix of
\* replaceBackgroundWithGreen's catch and then the prefix of removeBackground's
\* catch put in front of it (the missing-key error, thrown outside the try,
\* gets only the latter); the original message is kept whole at the end.
C12_ErrorWrappedTwice ==
    (rb = "thrown" /\ rbg = "thrown") =>
        /\ raised # <<>> =>
              rbError = <<"background-removal-failed: ", "green-replace-failed: ">> \o raised
        /\ raised = <<>> =>
              rbError \in
                 { <<"background-removal-failed: ", "green-replace-failed: ", "no-image-generated">>,
                   <<"background-removal-failed: ", "green-replace-failed: ", "image-fetch-failed">>,
                   <<"background-removal-failed: ", "api-key-missing">> }

\* C12 witness: the generation call raised a network error and removeBackground
\* has thrown.
C12_Witness ==
    /\ rb = "thrown"
    /\ raised = <<"network-error">>
    /\ Len(rbError) = 3

\* C13: once the error event of the image has fired, the invocation is
\* rejected with the load error, no pass has run, there is no output image,
\* the promise was settled once and the load was not started again.
C13_DecodeFailureRejects ==
    event = "error" =>
        /\ pc = "rejected"
        /\ result = [NoResult EXCEPT !.kind = "load-error"]
        /\ NoPassRan
        /\ settled = 1
        /\ invocations = 1

\* C13 witness: a direct call on a 4x3 image has been rejected by the error
\* event.
C13_Witness ==
    /\ event = "error"
    /\ pc = "rejected"
    /\ rb = "none"
    /\ imgW = 4
    /\ imgH = 3

\* C14: once the image has loaded and no 2D context was available, the
\* invocation is rejected with the context error before the canvas is sized
\* and before any pixel is read or modified, there is no output image, the
\* promise was settled once and nothing is retried.
C14_NoContextRejects ==
    event = "load-no-context" =>
        /\ pc = "rejected"
        /\ result = [NoResult EXCEPT !.kind = "context-error"]
        /\ NoPassRan
        /\ settled = 1
        /\ invocations = 1

\* C14 witness: a direct call on the scenario image has been rejected for
\* want of a context.
C14_Witness ==
    /\ event = "load-no-context"
    /\ pc = "rejected"
    /\ rb = "none"
    /\ img = ScenarioImage

\* (R+B)/2 as an 8-bit value: the half goes to the even neighbour.
HalfEven(sum) ==
    IF sum % 2 = 0 THEN sum \div 2
    ELSE IF ((sum - 1) \div 2) % 2 = 0 THEN (sum - 1) \div 2 ELSE (sum + 1) \div 2

\* Tier 3 applies: alpha > 0, neither strong nor medium green, weak tint.
InTier3(p) == A(p) > 0 /\ ~StrongGreen(p) /\ ~MediumGreen(p) /\ WeakTint(p)

\* C15 as stated: a tier-3 pixel leaves pass 1 with its alpha unchanged and
\* its green equal to (R+B)/2; a pixel that matches an earlier tier gets that
\* tier's treatment only.
C15_Tier3ExactAverage ==
    PastPass1 =>
        \A k \in DOMAIN img :
            /\ InTier3(img[k]) =>
                  /\ A(afterP1[k]) = A(img[k])
                  /\ 2 * G(afterP1[k]) = R(img[k]) + B(img[k])
            /\ (A(img[k]) > 0 /\ StrongGreen(img[k])) =>
                  afterP1[k] = <<R(img[k]), G(img[k]), B(img[k]), 0>>

\* C15 amended: a tier-3 pixel leaves pass 1 with alpha, red and blue
\* unchanged and its green equal to (R+B)/2 rounded to an integer, a half
\* going to the even neighbour; the first matching tier alone is applied: a
\* tier-1 pixel keeps its green and gets alpha 0, a tier-2 pixel gets the
\* tier-2 alpha.
C15_Tier3StoredAverage ==
    PastPass1 =>
        \A k \in DOMAIN img :
            LET p == img[k]
                q == afterP1[k]
            IN  /\ InTier3(p) =>
                      q = <<R(p), HalfEven(R(p) + B(p)), B(p), A(p)>>
                /\ (A(p) > 0 /\ StrongGreen(p)) => q = <<R(p), G(p), B(p), 0>>
                /\ InTier2(p) =>
                      A(q) = Min(255, Max(0, 255 - 3 * (G(p) - Max(R(p), B(p)))))

\* C15 witness: pass 1 has handled a tier-3 pixel with an odd R+B and a
\* partial alpha.
C15_Witness ==
    /\ PastPass1
    /\ \E k \in DOMAIN img :
          /\ InTier3(img[k])
          /\ (R(img[k]) + B(img[k])) % 2 = 1
          /\ A(img[k]) = 100
          /\ A(afterP1[k]) = 100
          /\ G(afterP1[k]) < G(img[k])

NoTier(p) == ~StrongGreen(p) /\ ~MediumGreen(p) /\ ~WeakTint(p)

\* C16: a pixel with alpha > 0 that matches no tier is left as it is by
\* pass 1, passes 2 and 3 never change any alpha, and so its output alpha is
\* its input alpha.
C16_NoTierUntouched ==
    /\ PastPass1 =>
          /\ \A k \in DOMAIN img :
                (A(img[k]) > 0 /\ NoTier(img[k])) => afterP1[k] = img[k]
          /\ \A k \in DOMAIN data : A(data[k]) = A(afterP1[k])
    /\ Resolved =>
          \A k \in DOMAIN img :
              (A(img[k]) > 0 /\ NoTier(img[k])) => A(Out[k]) = A(img[k])

\* C16 witness: a visible pixel that matches no tier, left alone by pass 1,
\* then despilled by pass 2, comes out with its input alpha.
C16_Witness ==
    /\ Resolved
    /\ \E k \in DOMAIN img :
          /\ A(img[k]) > 0
          /\ NoTier(img[k])
          /\ afterP1[k] = img[k]
          /\ G(afterP2[k]) < G(img[k])
          /\ A(Out[k]) = A(img[k])

\* C17: an input pixel with alpha 0 is left as it is by every pass, even
\* when its colour is strong green.
C17_TransparentSkipped ==
    /\ PastPass1 =>
          \A k \in DOMAIN img : A(img[k]) = 0 => (afterP1[k] = img[k] /\ data[k] = img[k])
    /\ PastPass2 =>
          \A k \in DOMAIN img : A(img[k]) = 0 => afterP2[k] = img[k]
    /\ Resolved =>
          \A k \in DOMAIN img : A(img[k]) = 0 => Out[k] = img[k]

\* C17 witness: a pure-green pixel with alpha 0 in the interior of the image,
\* which pass 2 has visited, comes out unchanged.
C17_Witness ==
    /\ Resolved
    /\ \E k \in visited :
          /\ img[k] = <<0, 255, 0, 0>>
          /\ Out[k] = img[k]

\* The pixel numbers of the up to 8 neighbours of pixel k in a w x h grid.
Neighbours(k, w, h) ==
    {j \in 0..(w * h - 1) :
        /\ j # k
        /\ (j % w) - (k % w) \in -1..1
        /\ (j \div w) - (k \div w) \in -1..1}

\* The condition of the edge despill on the output of pass 1.
EdgeTinted(k) ==
    /\ A(afterP1[k]) > 0
    /\ \E j \in Neighbours(k, canvasW, canvasH) : A(afterP1[j]) < 128
    /\ G(afterP1[k]) - Max(R(afterP1[k]), B(afterP1[k])) > 5

\* C18 as stated: pass 2 sets the green of every pixel of the grid that meets
\* the edge condition to min(avgRB, G), wherever the pixel is, and leaves
\* every other pixel unchanged.
C18_EdgeDespillEverywhere ==
    PastPass2 =>
        \A k \in DOMAIN afterP1 :
            LET p == afterP1[k]
                q == afterP2[k]
            IN  IF EdgeTinted(k)
                THEN /\ 2 * G(q) = Min(R(p) + B(p), 2 * G(p))
                     /\ R(q) = R(p) /\ B(q) = B(p) /\ A(q) = A(p)
                ELSE q = p

\* C18 amended: pass 2 applies to the interior pixels only (1 <= x <= w-2,
\* 1 <= y <= h-2): an interior pixel that meets the edge condition gets the
\* green min(avgRB, G), avgRB = (R+B)/2 rounded to an integer with a half
\* going to the even neighbour; every other pixel, and every pixel of the
\* outermost rows and columns, is left unchanged.
C18_EdgeDespillInterior ==
    PastPass2 =>
        \A k \in DOMAIN afterP1 :
            LET p == afterP1[k]
                q == afterP2[k]
            IN  IF k \in Interior(canvasW, canvasH) /\ EdgeTinted(k)
                THEN q = <<R(p),
                           IF 2 * G(p) <= R(p) + B(p) THEN G(p)
                           ELSE HalfEven(R(p) + B(p)),
                           B(p), A(p)>>
                ELSE q = p

\* C18 witness: pass 2 has despilled an interior pixel whose only
\* mostly-transparent neighbour is a diagonal one.
C18_Witness ==
    /\ PastPass2
    /\ \E k \in Interior(canvasW, canvasH) :
          /\ EdgeTinted(k)
          /\ G(afterP2[k]) < G(afterP1[k])
          /\ Cardinality({j \in Neighbours(k, canvasW, canvasH) :
                             A(afterP1[j]) < 128}) = 1
          /\ \E j \in Neighbours(k, canvasW, canvasH) :
                /\ A(afterP1[j]) < 128
                /\ j % canvasW # k % canvasW
                /\ j \div canvasW # k \div canvasW

\* C19 as stated: for every pixel pass 3 modifies, the green after pass 3 is
\* G - min(0.3 * excess, 10) up to 8-bit rounding (within one half); every
\* other pixel is unchanged by pass 3.
C19_Pass3SubtractsCappedExcess ==
    Resolved =>
        \A k \in DOMAIN afterP2 :
            LET p == afterP2[k]
                target20 == 20 * G(p) - Min(3 * (2 * G(p) - R(p) - B(p)), 200)
            IN  IF Pass3Applies(p)
                THEN /\ 20 * G(Out[k]) - target20 \in -10..10
                     /\ R(Out[k]) = R(p) /\ B(Out[k]) = B(p) /\ A(Out[k]) = A(p)
                ELSE Out[k] = p

\* C20: the snapshot is taken and pass 2 runs only after pass 1 has processed
\* every pixel, and pass 3 runs only after pass 2 has processed every pixel
\* it visits.
C20_PassesInOrder ==
    /\ pc \in {"idle", "loading", "pass1", "rejected"} =>
          (tempData = Empty /\ afterP1 = Empty /\ visited = {})
    /\ pc = "pass2" =>
          /\ i = PixelCount(data)
          /\ tempData = afterP1
          /\ afterP2 = Empty
          /\ visited \subseteq Interior(canvasW, canvasH)
    /\ PastPass2 =>
          /\ tempData = afterP1
          /\ visited = Interior(canvasW, canvasH)
          /\ \A k \in DOMAIN data : k >= i => (pc = "pass3" => data[k] = afterP2[k])
    /\ Resolved => i = PixelCount(data)

\* C20 witness: pass 3 is under way on a 4x3 image after pass 1 changed
\* pixels and pass 2 visited and changed both interior pixels.
C20_Witness ==
    /\ pc = "pass3"
    /\ i > 0
    /\ canvasW = 4
    /\ canvasH = 3
    /\ visited = {5, 6}
    /\ afterP1 # img
    /\ afterP2[5] # afterP1[5]
    /\ afterP2[6] # afterP1[6]

Channels(d) == {d[k][c] : k \in DOMAIN d, c \in 1..4}

\* C21: every channel of every buffer the passes read or write (the live
\* buffer, the snapshot, the output) is an integer in 0..255 at every step,
\* and the divisor avgRB + 1 of greenRatio is at least 1 for every pixel
\* pass 1 meets (R + B + 2 is twice the divisor).
C21_StoredValuesInRange ==
    /\ Channels(data) \subseteq 0..255
    /\ Channels(tempData) \subseteq 0..255
    /\ Channels(Out) \subseteq 0..255
    /\ Channels(other.data) \subseteq 0..255
    /\ Channels(other.tempData) \subseteq 0..255
    /\ \A k \in DOMAIN data : R(data[k]) + B(data[k]) + 2 >= 2

\* C21 witness: pass 1 has stored the tier-2 alpha of a pixel with negative
\* greenStrength, 255 - 3*greenStrength > 255, as 255.
C21_Witness ==
    /\ PastPass1
    /\ \E k \in DOMAIN img :
          /\ InTier2(img[k])
          /\ 255 - 3 * (G(img[k]) - Max(R(img[k]), B(img[k]))) > 255
          /\ A(img[k]) < 255
          /\ A(afterP1[k]) = 255

\* C22: with a second invocation in flight on another image, whichever load
\* event fires first, each invocation's buffer and snapshot hold its own
\* pixels only (nothing before its own handler ran, its own pass results
\* after), and each resolves with the three passes applied to its own image,
\* which is what an invocation running alone resolves with.
C22_InvocationsIndependent ==
    /\ pc \in {"idle", "loading", "rejected"} => (data = Empty /\ tempData = Empty)
    /\ Resolved =>
          /\ Out = FilterImage(img, imgW, imgH)
          /\ data = Out
          /\ tempData = Pass1Image(img)
    /\ other.pc \in {"none", "loading", "rejected"} =>
          /\ other.data = Empty
          /\ other.tempData = Empty
          /\ other.result.pixels = Empty
    /\ other.pc = "resolved" =>
          /\ other.result.pixels = FilterImage(other.pixels, other.width, other.height)
          /\ other.data = other.result.pixels
          /\ other.tempData = Pass1Image(other.pixels)

\* C22 witness: two invocations were in flight together, the load event of
\* the second fired before that of the first, both have resolved, each with
\* pixels changed, and with different outputs.
C22_Witness ==
    /\ Resolved
    /\ other.pc = "resolved"
    /\ other.first
    /\ Out # img
    /\ other.result.pixels # other.pixels
    /\ Out # other.result.pixels

\* C23 as stated: no pixel has a larger alpha in the output than in the input.
C23_NeverMoreOpaque ==
    Resolved => \A k \in DOMAIN img : A(Out[k]) <= A(img[k])

\* C23 amended: a pixel that does not match tier 2 has an output alpha of at
\* most its input alpha (0 for tier 1, the input alpha otherwise); a tier-2
\* pixel leaves with alpha min(255, max(0, 255 - 3*greenStrength)) whatever
\* alpha it came with, which is above its input alpha when that was smaller.
C23_AlphaRaisedOnlyByTier2 ==
    Resolved =>
        \A k \in DOMAIN img :
            LET p == img[k]
            IN  /\ ~InTier2(p) => A(Out[k]) <= A(p)
                /\ ~InTier2(p) => A(Out[k]) \in {0, A(p)}
                /\ InTier2(p) =>
                      A(Out[k]) = Min(255, Max(0, 255 - 3 * (G(p) - Max(R(p), B(p)))))

\* C23 witness: a tier-2 pixel with positive greenStrength that came with
\* alpha 100 leaves the filter with a larger alpha.
C23_Witness ==
    /\ Resolved
    /\ \E k \in DOMAIN img :
          /\ InTier2(img[k])
          /\ G(img[k]) > Max(R(img[k]), B(img[k]))
          /\ A(img[k]) = 100
          /\ A(Out[k]) > 100
          /\ A(Out[k]) < 255

\* C24: at every step of the passes and in the output, the red and blue of
\* every pixel are those of the input, and its green is at most the green of
\* the input; no pass raises green: not pass 1 over the input, not pass 2
\* over the output of pass 1, not pass 3 over the output of pass 2.
C24_ColourFrame ==
    /\ pc \in {"pass1", "pass2", "pass3", "resolved"} =>
          \A k \in DOMAIN data :
              /\ R(data[k]) = R(img[k])
              /\ B(data[k]) = B(img[k])
              /\ G(data[k]) <= G(img[k])
    /\ PastPass1 => \A k \in DOMAIN data : G(data[k]) <= G(afterP1[k])
    /\ PastPass2 => \A k \in DOMAIN data : G(data[k]) <= G(afterP2[k])
    /\ Resolved =>
          \A k \in DOMAIN img :
              /\ R(Out[k]) = R(img[k])
              /\ B(Out[k]) = B(img[k])
              /\ G(Out[k]) <= G(img[k])

\* C24 witness: pass 1 has replaced the green of a pixel with an odd R+B by
\* the average rounded up, which is still below the green it came with; red
\* and blue are as on input.
C24_Witness ==
    /\ Resolved
    /\ \E k \in DOMAIN img :
          /\ 2 * G(afterP1[k]) = R(img[k]) + B(img[k]) + 1
          /\ G(afterP1[k]) < G(img[k])
          /\ G(Out[k]) = G(afterP1[k])
          /\ R(Out[k]) = R(img[k])
          /\ B(Out[k]) = B(img[k])

\* C25: every output pixel with alpha > 0 has 2*G <= R + B + 21.
C25_ResidualGreenBound ==
    Resolved =>
        \A k \in DOMAIN Out :
            A(Out[k]) > 0 => 2 * G(Out[k]) <= R(Out[k]) + B(Out[k]) + 21

\* C25 witness: an output pixel with alpha > 0 that meets the bound exactly:
\* pass 3 stored avgRB + 10 with avgRB ending in one half, rounded up.
C25_Witness ==
    /\ Resolved
    /\ \E k \in DOMAIN Out :
          /\ A(Out[k]) > 0
          /\ 2 * G(Out[k]) = R(Out[k]) + B(Out[k]) + 21
          /\ G(Out[k]) < G(afterP2[k])

\* The filter applied to its own output.
FilteredAgain == FilterImage(Out, result.width, result.height)

\* C26 as stated: the three passes applied to the output of the three passes
\* give that output again.
C26_FilterIdempotent ==
    Resolved => FilteredAgain = Out

\* C26 amended: the three passes applied to the output change nothing but the
\* green of the visible pixels that pass 3 left with 2*G = R + B + 21 (avgRB
\* + 10 rounded up from a half): for these G > avgRB + 10 still holds, and
\* pass 3 lowers their green by 7 more; every other pixel and channel is
\* kept, and a third application changes nothing.
C26_IdempotentButRoundedCap ==
    Resolved =>
        LET again == FilteredAgain
        IN  /\ \A k \in DOMAIN Out :
                  LET o == Out[k]
                  IN  IF A(o) > 0 /\ 2 * G(o) = R(o) + B(o) + 21
                      THEN again[k] = <<R(o), G(o) - 7, B(o), A(o)>>
                      ELSE again[k] = o
            /\ FilterImage(again, result.width, result.height) = again

\* C26 witness: the output of a 3x3 image in which pass 1 and pass 3 changed
\* pixels; the three passes applied again keep the pixels pass 1 keyed out
\* and lower the green of the pixel pass 3 left at the rounded cap.
C26_Witness ==
    /\ Resolved
    /\ imgW = 3
    /\ imgH = 3
    /\ afterP1 # img
    /\ Out # afterP2
    /\ \E k \in DOMAIN Out : Out[k] # img[k] /\ FilteredAgain[k] = Out[k]
    /\ \E k \in DOMAIN Out :
          /\ 2 * G(Out[k]) = R(Out[k]) + B(Out[k]) + 21
          /\ G(FilteredAgain[k]) = G(Out[k]) - 7

\* Pass 2 run to its end in row-major order by a variant that reads the live
\* buffer where the code reads the snapshot.
RECURSIVE Pass2LiveRowMajor(_, _, _)
Pass2LiveRowMajor(live, w, todo) ==
    IF todo = {} THEN live
    ELSE LET idx == CHOOSE k \in todo : \A j \in todo : k <= j
         IN  Pass2LiveRowMajor(
                 [live EXCEPT ![idx] = Pass2Pixel(live, live, w, idx % w, idx \div w)],
                 w, todo \ {idx})

\* C27: at every point of pass 2, whatever the order of the visits so far,
\* the visit of any pixel not yet visited writes the same value whether it
\* reads the snapshot or the live buffer, so the two variants go through the
\* same buffers; and the buffer pass 2 ends with is the one the live-reading
\* variant ends with.
C27_SnapshotNotObservable ==
    /\ pc = "pass2" =>
          \A idx \in Interior(canvasW, canvasH) \ visited :
              Pass2Pixel(data, tempData, canvasW, idx % canvasW, idx \div canvasW)
                 = Pass2Pixel(data, data, canvasW, idx % canvasW, idx \div canvasW)
    /\ PastPass2 =>
          afterP2 = Pass2LiveRowMajor(afterP1, canvasW, Interior(canvasW, canvasH))

\* C27 witness: pass 2 has ended on the 4x3 image with the green left column,
\* having visited pixel 6 before pixel 5: pixel 5, next to the transparent
\* column, was despilled, and its neighbour pixel 6 was left alone.
C27_Witness ==
    /\ PastPass2
    /\ img = EdgePairImage(<<100, 110, 100, 255>>)
    /\ reordered
    /\ G(afterP2[5]) < G(afterP1[5])
    /\ afterP2[6] = afterP1[6]

\* C28: an output pixel has alpha 0 exactly when its input alpha was 0 or it
\* matched tier 1; a tier-2 pixel has 255 - 3*greenStrength >= 15, so the
\* floor max(0, ...) is not the active bound, and leaves with an alpha in
\* 15..255.
C28_OnlyTier1MakesTransparent ==
    Resolved =>
        \A k \in DOMAIN img :
            LET p == img[k]
            IN  /\ A(Out[k]) = 0 <=> (A(p) = 0 \/ StrongGreen(p))
                /\ InTier2(p) =>
                      /\ 255 - 3 * (G(p) - Max(R(p), B(p))) >= 15
                      /\ A(Out[k]) \in 15..255

\* C28 witness: a tier-2 pixel with greenStrength 80, the largest tier 2
\* admits, has left the filter with alpha 15.
C28_Witness ==
    /\ Resolved
    /\ \E k \in DOMAIN img :
          /\ InTier2(img[k])
          /\ G(img[k]) - Max(R(img[k]), B(img[k])) = 80
          /\ A(Out[k]) = 15

\* The pixel numbers nIdx / 4 the visit of pixel idx reads (line 680).
NeighbourReads(w, idx) ==
    {((idx \div w) + dy) * w + ((idx % w) + dx) : dx \in -1..1, dy \in -1..1} \ {idx}

\* The pixel the loops of pass 2 are about to visit, if any.
Pass2Current ==
    IF pc = "pass2" /\ y < canvasH - 1 /\ x < canvasW - 1
    THEN {y * canvasW + x}
    ELSE {}

\* C29: every pixel pass 2 visits or is about to visit has 1 <= x <= width-2
\* and 1 <= y <= height-2, and every neighbour index it reads, nIdx + 3, is
\* at least 0 and below 4*width*height, with the neighbour's column inside
\* the row; on an image with width < 3 or height < 3 pass 2 visits nothing
\* and changes nothing.
C29_Pass2InBounds ==
    /\ PastPass1 =>
          \A idx \in visited \cup Pass2Current :
              /\ idx % canvasW \in 1..(canvasW - 2)
              /\ idx \div canvasW \in 1..(canvasH - 2)
              /\ \A n \in NeighbourReads(canvasW, idx) :
                    /\ 4 * n >= 0
                    /\ 4 * n + 3 < 4 * canvasW * canvasH
                    /\ n \in DOMAIN tempData
    /\ (PastPass2 /\ (canvasW < 3 \/ canvasH < 3)) =>
          (visited = {} /\ afterP2 = afterP1)

\* C29 witness: pass 2 has ended on a 2x3 image without a visit, leaving as
\* it was a tinted pixel next to a transparent one.
C29_Witness ==
    /\ PastPass2
    /\ canvasW = 2
    /\ canvasH = 3
    /\ visited = {}
    /\ afterP2 = afterP1
    /\ \E k \in DOMAIN afterP1 : EdgeTinted(k)

\* The promise and the event agree in the current state.
SettledOnce ==
    /\ settled <= 1
    /\ settled = 1 <=> pc \in {"resolved", "rejected"}
    /\ settled = 0 <=> result = NoResult
    /\ pc = "rejected" <=> event \in {"error", "load-no-context"}
    /\ event = "error" => result.kind = "load-error"
    /\ event = "load-no-context" => result.kind = "context-error"
    /\ pc = "resolved" =>
          /\ event = "load"
          /\ result.kind = "png"
          /\ visited = Interior(canvasW, canvasH)
          /\ i = PixelCount(data)
          /\ result.pixels = data
    /\ event = "load" => pc \in {"pass1", "pass2", "pass3", "resolved"}

\* C30: resolve and reject are called at most once in all; the promise is
\* rejected exactly when the error event fired or the image loaded without a
\* 2D context, and resolved only after the load event and the end of pass 3,
\* with the PNG of the buffer; once settled it stays as it is; and once the
\* load or error event has fired the promise is eventually settled.
C30_SettlesExactlyOnce ==
    /\ []SettledOnce
    /\ [][settled = 1 => (settled' = 1 /\ result' = result /\ pc' = pc)]_vars
    /\ (event # "none") ~> (settled = 1)

\* C30 witness: the promise of a direct call on the scenario image was
\* resolved, once, after the load event and the three passes.
C30_Witness ==
    /\ rb = "none"
    /\ img = ScenarioImage
    /\ event = "load"
    /\ pc = "resolved"
    /\ settled = 1
    /\ result.kind = "png"
    /\ result.pixels # img

====
